---- MODULE Spec2Model ----
(***************************************************************************)
(* Model of packages/jaeger-ui/src/api/jaeger.js: the Zipkin-to-Jaeger     *)
(* adapter (transformLogs, transformTags, transformReferences,             *)
(* transformTraceData, durationToMs) and the promise-based JaegerAPI       *)
(* methods built on getJSON.                                               *)
(*                                                                         *)
(* JavaScript strings that the code scans are sequences of one-character   *)
(* strings.  An optional value (undefined / null or a value) is a sequence *)
(* of length at most one: << >> is "absent", << v >> is "present, v".      *)
(***************************************************************************)
EXTENDS Integers, Sequences, FiniteSets, TLC

VARIABLES
  span,        \* transformLogs: the source span handed to transformLogs
  logs,        \* transformLogs: its result (Some) or not yet called (None)
  token,       \* durationToMs: the `duration` argument
  nanos,       \* durationToMs: the `nanos` argument
  msResult,    \* durationToMs: None before the call, Some(returned value) after
  trace,       \* transformTraceData: the argument (sequence of source spans)
  traceData,   \* transformTraceData: None before the call, Some(result) after
  call,        \* JaegerAPI: the method invoked and its arguments, or idle
  callerQuery, \* JaegerAPI.searchTraces: the object the caller passed in
  requests,    \* getJSON: per issued fetch, url/options and progress
  promise,     \* the promise the JaegerAPI method returned
  transformed  \* the fetches whose result went through a transformer, in order

vars == <<span, logs, token, nanos, msResult, trace, traceData,
          call, callerQuery, requests, promise, transformed>>

----------------------------------------------------------------------------
(* Optional values                                                          *)

None == << >>

Some(v) == << v >>

IsSome(o) == Len(o) = 1

\* JavaScript `!x` for an optional string: undefined, null and "" are falsy.
FalsyStr(o) == o = None \/ o = Some(<< >>)

\* All strings over `alphabet` of length at most n.
StringsUpTo(alphabet, n) == UNION { [1..k -> alphabet] : k \in 0..n }

----------------------------------------------------------------------------
(* transformLogs: jaeger.js lines 75-98                                     *)

\* Bound: longest annotation value explored.
MaxValueLen == 6

\* The backquote character (U+0060), which a TLA+ string cannot hold.
Backquote == "<backquote>"

\* Characters of annotation values.  "$" and the backquote are ordinary text
\* for the regular expression but special in a String.prototype.replace
\* template.
ValueAlphabet == {"a", "=", " ", "$", Backquote}

\* The separator '__$key$__' of lines 83 and 86, kept as one symbol: no
\* character of ValueAlphabet occurs next to "_" in it, so neither a match
\* nor a split can straddle it.
KeySep == "__$key$__"

\* \s of the pattern, over ValueAlphabet.
IsSpace(c) == c = " "

RECURSIVE RunEnd(_, _)
\* Index of the last character of the \S run that starts at r.
RunEnd(s, r) ==
  IF r < Len(s) /\ ~IsSpace(s[r + 1]) THEN RunEnd(s, r + 1) ELSE r

\* (\S+)= with \S+ greedy, the run starting at r: the index of the "=" that
\* ends the match (the last "=" of the run with at least one character
\* before it), or 0.
LastEq(s, r) ==
  LET js == { j \in (r + 1)..RunEnd(s, r) : s[j] = "=" }
  IN  IF js = {} THEN 0 ELSE CHOOSE j \in js : \A k \in js : k <= j

\* /(\s?((\S+)=))/ anchored at position p: << >> or the match.
MatchAt(s, p) ==
  LET r  == IF IsSpace(s[p]) THEN p + 1 ELSE p
      ok == r <= Len(s) /\ ~IsSpace(s[r])
      j  == IF ok THEN LastEq(s, r) ELSE 0
  IN  IF j = 0 THEN None
      ELSE Some([start |-> p, keyStart |-> r, eq |-> j])

RECURSIVE RegexExec(_, _)
\* regex.exec(value) of a global regex whose lastIndex is `lastIndex`
\* (0-based, so the search starts at position lastIndex + 1).
RegexExec(s, lastIndex) ==
  IF lastIndex >= Len(s) THEN None
  ELSE LET m == MatchAt(s, lastIndex + 1)
       IN  IF IsSome(m) THEN m ELSE RegexExec(s, lastIndex + 1)

\* match[0] and match[3] of a match.
MatchText(s, m) == SubSeq(s, m.start, m.eq)

MatchKey(s, m) == SubSeq(s, m.keyStart, m.eq - 1)

RECURSIVE IndexOf(_, _, _)
\* First position at or after `from` where pat occurs in s, or 0.
IndexOf(s, pat, from) ==
  IF from + Len(pat) - 1 > Len(s) THEN 0
  ELSE IF SubSeq(s, from, from + Len(pat) - 1) = pat THEN from
  ELSE IndexOf(s, pat, from + 1)

RECURSIVE GetSubstitution(_, _, _, _)
\* The replacement text String.prototype.replace builds from a template
\* string: $$ is "$", $& the matched text, $<backquote> the text before the
\* match, $' the text after it; any other "$" stands for itself.
GetSubstitution(tpl, matched, before, after) ==
  IF tpl = << >> THEN << >>
  ELSE IF Head(tpl) = "$" /\ Len(tpl) >= 2 /\ tpl[2] \in {"$", "&", Backquote, "'"}
  THEN (CASE tpl[2] = "$" -> <<"$">>
          [] tpl[2] = "&" -> matched
          [] tpl[2] = Backquote -> before
          [] tpl[2] = "'" -> after)
       \o GetSubstitution(SubSeq(tpl, 3, Len(tpl)), matched, before, after)
  ELSE <<Head(tpl)>> \o GetSubstitution(Tail(tpl), matched, before, after)

\* str.replace(pat, tpl) with a string pattern: the first occurrence only.
StrReplace(str, pat, tpl) ==
  LET i == IndexOf(str, pat, 1)
  IN  IF i = 0 THEN str
      ELSE LET before == SubSeq(str, 1, i - 1)
               after  == SubSeq(str, i + Len(pat), Len(str))
           IN  before \o GetSubstitution(tpl, pat, before, after) \o after

RECURSIVE MarkKeys(_, _, _)
\* The while loop of lines 80-85: value is scanned, fieldsValue rewritten.
MarkKeys(value, fieldsValue, lastIndex) ==
  LET m == RegexExec(value, lastIndex)
  IN  IF m = None THEN fieldsValue
      ELSE LET key == MatchKey(value, m[1])
           IN  MarkKeys(value,
                        StrReplace(fieldsValue, MatchText(value, m[1]),
                                   <<KeySep>> \o key \o <<"=">>),
                        m[1].eq)

RECURSIVE AllMatches(_, _)
\* Every match the loop of lines 80-85 sees, in the order it sees them.
AllMatches(value, lastIndex) ==
  LET m == RegexExec(value, lastIndex)
  IN  IF m = None THEN << >> ELSE m \o AllMatches(value, m[1].eq)

RECURSIVE StrSplit(_, _)
\* str.split(sep) for a one-symbol separator: always at least one piece.
StrSplit(str, sep) ==
  LET is == { i \in 1..Len(str) : str[i] = sep }
  IN  IF is = {} THEN <<str>>
      ELSE LET i == CHOOSE k \in is : \A l \in is : k <= l
           IN  <<SubSeq(str, 1, i - 1)>>
                 \o StrSplit(SubSeq(str, i + 1, Len(str)), sep)

\* Lines 87-91: prop.split('=') and the pieces 0 and 1 of it.
FieldOf(prop) ==
  LET t == StrSplit(prop, "=")
  IN  [key |-> t[1], value |-> IF Len(t) >= 2 THEN Some(t[2]) ELSE None]

\* Lines 77-92 for one annotation value.
ParseFields(value) ==
  LET fieldsValue == MarkKeys(value, value, 0)
      props       == Tail(StrSplit(fieldsValue, KeySep))
  IN  [i \in 1..Len(props) |-> FieldOf(props[i])]

\* transformLogs(span).
TransformLogs(s) ==
  IF s.annotations = None THEN << >>
  ELSE LET as == s.annotations[1]
       IN  [i \in 1..Len(as) |->
              [timestamp |-> as[i].timestamp, fields |-> ParseFields(as[i].value)]]

\* Source spans handed to transformLogs: annotations absent, empty, or one
\* annotation with any value of at most MaxValueLen characters.
LogSpans ==
  { [annotations |-> None], [annotations |-> Some(<< >>)] }
  \cup { [annotations |-> Some(<<[timestamp |-> 1, value |-> v]>>)] :
           v \in StringsUpTo(ValueAlphabet, MaxValueLen) }

LogsIdle == span = [annotations |-> None] /\ logs = None

\* A caller evaluates transformLogs(span).
CallTransformLogs ==
  /\ logs = None
  /\ logs' = Some(TransformLogs(span))
  /\ UNCHANGED <<span, token, nanos, msResult, trace, traceData,
                 call, callerQuery, requests, promise, transformed>>

----------------------------------------------------------------------------
(* durationToMs: jaeger.js lines 168-186                                    *)

\* Bound: longest duration token explored.
MaxTokenLen == 4

\* Characters of duration tokens: digits, unit letters, a separator.
TokenAlphabet == {"0", "1", "s", "u", " "}

Digits == {"0", "1", "2", "3", "4", "5", "6", "7", "8", "9"}

\* [a-z] under the i flag, for lower-case input.
Letters == {"a", "b", "c", "d", "e", "f", "g", "h", "i", "j", "k", "l", "m",
            "n", "o", "p", "q", "r", "s", "t", "u", "v", "w", "x", "y", "z"}

DigitValue(c) ==
  CASE c = "0" -> 0 [] c = "1" -> 1 [] c = "2" -> 2 [] c = "3" -> 3
    [] c = "4" -> 4 [] c = "5" -> 5 [] c = "6" -> 6 [] c = "7" -> 7
    [] c = "8" -> 8 [] c = "9" -> 9

RECURSIVE ParseInt(_)
\* parseInt(value, 10) of a non-empty digit string.
ParseInt(ds) ==
  IF ds = << >> THEN 0
  ELSE 10 * ParseInt(SubSeq(ds, 1, Len(ds) - 1)) + DigitValue(ds[Len(ds)])

\* moment.duration(1, unit).asMilliseconds(): moment's unit shorthands; a
\* unit moment does not know contributes nothing to the duration.
UnitMs(unit) ==
  CASE unit = <<"m", "s">> -> 1
    [] unit = <<"s">>      -> 1000
    [] unit = <<"m">>      -> 60000
    [] unit = <<"h">>      -> 3600000
    [] unit = <<"d">>      -> 86400000
    [] unit = <<"w">>      -> 604800000
    [] OTHER               -> 0

RECURSIVE ClassEnd(_, _, _)
\* Index of the last character of the run of class cls that starts at p.
ClassEnd(s, p, cls) ==
  IF p < Len(s) /\ s[p + 1] \in cls THEN ClassEnd(s, p + 1, cls) ELSE p

\* /([0-9]+)([a-z]+)/ anchored at p, both groups greedy: None or the match.
DurationMatchAt(s, p) ==
  IF s[p] \notin Digits THEN None
  ELSE LET e == ClassEnd(s, p, Digits)
       IN  IF e < Len(s) /\ s[e + 1] \in Letters
           THEN Some([value |-> SubSeq(s, p, e),
                      unit  |-> SubSeq(s, e + 1, ClassEnd(s, e + 1, Letters))])
           ELSE None

RECURSIVE DurationExec(_, _)
\* re.exec(duration) from position p: the leftmost match.
DurationExec(s, p) ==
  IF p > Len(s) THEN None
  ELSE LET m == DurationMatchAt(s, p)
       IN  IF IsSome(m) THEN m ELSE DurationExec(s, p + 1)

\* durationToMs with the positivity test of line 183 left out.
DurationToMsUnchecked(duration, nano) ==
  IF FalsyStr(duration) THEN None
  ELSE LET rs == DurationExec(duration[1], 1)
       IN  IF IsSome(rs)
           THEN LET ms0 == ParseInt(rs[1].value) * UnitMs(rs[1].unit)
                IN  Some(IF nano THEN ms0 * 1000 ELSE ms0)
           ELSE None

\* durationToMs(duration, nanos): None is null.
DurationToMs(duration, nano) ==
  IF FalsyStr(duration) THEN None
  ELSE LET rs == DurationExec(duration[1], 1)
       IN  IF IsSome(rs)
           THEN LET ms0 == ParseInt(rs[1].value) * UnitMs(rs[1].unit)
                    ms  == IF nano THEN ms0 * 1000 ELSE ms0
                IN  IF ms > 0 THEN Some(ms) ELSE None
           ELSE None

\* Tokens handed to durationToMs: undefined, or a string.
Tokens == {None} \cup { Some(t) : t \in StringsUpTo(TokenAlphabet, MaxTokenLen) }

DurationIdle == token = None /\ nanos = FALSE /\ msResult = None

\* A caller evaluates durationToMs(token, nanos).
CallDurationToMs ==
  /\ msResult = None
  /\ msResult' = Some(DurationToMs(token, nanos))
  /\ UNCHANGED <<span, logs, token, nanos, trace, traceData,
                 call, callerQuery, requests, promise, transformed>>

----------------------------------------------------------------------------
(* transformTags, transformReferences, transformTraceData: lines 100-151    *)

\* Bound: most spans in one trace.
MaxSpans == 2

\* JavaScript `!x` for an optional identifier.
FalsyId(o) == o = None \/ o = Some("")

\* transformTags(span): the entries of span.tags in insertion order.
TransformTags(s) ==
  IF s.tags = None THEN << >>
  ELSE LET es == s.tags[1]
       IN  [i \in 1..Len(es) |-> [key |-> es[i][1], value |-> es[i][2]]]

\* transformReferences with the reference pointing at the span itself.
TransformReferencesSelf(s) ==
  IF FalsyId(s.parentId) THEN << >>
  ELSE << [refType |-> IF s.kind = Some("CONSUMER") THEN "FOLLOWS_FROM"
                                                    ELSE "CHILD_OF",
           traceID |-> s.traceId,
           spanID  |-> Some(s.id)] >>

\* transformReferences(span).
TransformReferences(s) ==
  IF FalsyId(s.parentId) THEN << >>
  ELSE << [refType |-> IF s.kind = Some("CONSUMER") THEN "FOLLOWS_FROM"
                                                    ELSE "CHILD_OF",
           traceID |-> s.traceId,
           spanID  |-> s.parentId] >>

\* Lines 119-129: one target span.
TransformSpan(s) ==
  [spanID        |-> s.id,
   traceID       |-> s.traceId,
   processID     |-> s.localEndpoint.serviceName,
   operationName |-> s.name,
   startTime     |-> s.timestamp,
   duration      |-> s.duration,
   logs          |-> TransformLogs(s),
   tags          |-> TransformTags(s),
   references    |-> TransformReferences(s)]

\* Lines 134-148: the process record built for one span.
ProcessOf(s) ==
  [serviceName |-> s.localEndpoint.serviceName,
   tags |-> << [key |-> "hostname", type |-> "string",
                value |-> Some(s.localEndpoint.serviceName)],
               [key |-> "ip", type |-> "string",
                value |-> s.localEndpoint.ipv4] >>]

\* An assignment that keeps the record a key already has.
SetKeyIfNew(obj, name, rec) ==
  [k \in DOMAIN obj \cup {name} |-> IF k \in DOMAIN obj THEN obj[k] ELSE rec]

\* processes[name] = record, on an object modelled as a function.
SetKey(obj, name, rec) ==
  [k \in DOMAIN obj \cup {name} |-> IF k = name THEN rec ELSE obj[k]]

RECURSIVE BuildProcesses(_, _)
\* The forEach of lines 131-149, over the first n spans of the trace.
BuildProcesses(t, n) ==
  IF n = 0 THEN [k \in {} |-> None]
  ELSE SetKey(BuildProcesses(t, n - 1),
              t[n].localEndpoint.serviceName, ProcessOf(t[n]))

\* transformTraceData(trace), for a non-empty trace.
TransformTraceData(t) ==
  [traceID   |-> t[1].traceId,
   spans     |-> [i \in 1..Len(t) |-> TransformSpan(t[i])],
   processes |-> BuildProcesses(t, Len(t))]

\* transformTracesData(traces).
TransformTracesData(ts) == [i \in 1..Len(ts) |-> TransformTraceData(ts[i])]

\* A Zipkin span as the backend sends it.
ZipkinSpan(traceId, parentId, kind, serviceName, ipv4) ==
  [id            |-> "s1",
   traceId       |-> traceId,
   parentId      |-> parentId,
   name          |-> "get",
   kind          |-> kind,
   timestamp     |-> 10,
   duration      |-> 5,
   localEndpoint |-> [serviceName |-> serviceName, ipv4 |-> ipv4],
   tags          |-> IF kind = None THEN None
                     ELSE Some(<< <<"http.path", "/api">> >>),
   annotations   |-> IF parentId = None THEN None
                     ELSE Some(<< [timestamp |-> 11,
                                   value |-> <<"a", "=", "a", " ", "a", "=", "a">>] >>)]

SourceSpans ==
  { ZipkinSpan(t, p, k, n, ip) :
      t \in {"T1", "T2"}, p \in {None, Some("p1")},
      k \in {None, Some("CONSUMER"), Some("SERVER")},
      n \in {"A", "B"}, ip \in {Some("10.0.0.1"), Some("10.0.0.2")} }

\* Non-empty traces of at most MaxSpans spans.
Traces == UNION { [1..n -> SourceSpans] : n \in 1..MaxSpans }

TraceIdle == trace = << >> /\ traceData = None

\* A caller evaluates transformTraceData(trace).
CallTransformTraceData ==
  /\ traceData = None
  /\ trace # << >>
  /\ traceData' = Some(TransformTraceData(trace))
  /\ UNCHANGED <<span, logs, token, nanos, msResult, trace,
                 call, callerQuery, requests, promise, transformed>>

----------------------------------------------------------------------------
(* getJSON: jaeger.js lines 23-73.  Text that getJSON only passes on or     *)
(* glues together is a sequence of chunks (strings); " " is a blank chunk.  *)

\* DEFAULT_API_ROOT, line 165, with an empty site prefix.
ApiRoot == "/api/v2/"

StatusText(status) ==
  CASE status = 200 -> "OK"
    [] status = 404 -> "Not Found"
    [] status = 500 -> "Internal Server Error"

\* Parsed JSON values: arrays and objects.
JsonArray(items) == [kind |-> "array", items |-> items]

EmptyObject == [kind |-> "object"]

\* The object literal { data: d } of lines 192-194, 198, 221-223, 227-229, 233-235.
Envelope(d) == [kind |-> "object", data |-> d]

RECURSIVE TrimLeft(_)
TrimLeft(cs) == IF cs # << >> /\ Head(cs) = " " THEN TrimLeft(Tail(cs)) ELSE cs

RECURSIVE TrimRight(_)
TrimRight(cs) ==
  IF cs # << >> /\ cs[Len(cs)] = " " THEN TrimRight(SubSeq(cs, 1, Len(cs) - 1))
  ELSE cs

\* String.prototype.trim.
Trim(cs) == TrimRight(TrimLeft(cs))

\* getMessageFromError(errData, status), lines 23-35.
GetMessageFromError(errData, status) ==
  IF IsSome(errData.code) /\ IsSome(errData.msg)
  THEN IF errData.code[1] = status THEN errData.msg[1]
       ELSE <<ToString(errData.code[1]), " - ">> \o errData.msg[1]
  ELSE errData.json

RECURSIVE JoinMessages(_, _)
\* errors.map(getMessageFromError).join('; '), line 57.
JoinMessages(errs, status) ==
  IF Len(errs) = 1 THEN GetMessageFromError(errs[1], status)
  ELSE GetMessageFromError(errs[1], status) \o <<"; ">>
         \o JoinMessages(Tail(errs), status)

\* queryString.stringify(query): the entries that carry a value, none for
\* no query at all.  Every value of a query object is optional here.
QueryStringify(query) ==
  IF query = None THEN [k \in {} |-> None]
  ELSE [k \in { x \in DOMAIN query[1] : query[1][x] # None } |-> query[1][k]]

\* Lines 45-70: the error getJSON throws for a response of status >= 400
\* whose body text is `body`.
HttpError(url, query, status, body) ==
  LET data         == body.parsed
      bodyTextFmt  == IF IsSome(data) THEN body.pretty ELSE << >>
      errorMessage ==
        IF IsSome(data) /\ data[1].errors # << >>
        THEN JoinMessages(data[1].errors, status)
        ELSE IF body.text # << >> THEN body.text
             ELSE <<ToString(status), " - ", StatusText(status)>>
  IN  [message        |-> <<"HTTP Error: ">> \o Trim(errorMessage),
       httpStatus     |-> status,
       httpStatusText |-> StatusText(status),
       httpBody       |-> IF bodyTextFmt # << >> THEN bodyTextFmt ELSE body.text,
       httpUrl        |-> url,
       httpQuery      |-> QueryStringify(query)]

\* Lines 37-41: the fetch getJSON issues.
NewRequest(url, query, method) ==
  [url         |-> url,
   query       |-> query,
   queryStr    |-> QueryStringify(query),
   method      |-> method,
   credentials |-> "same-origin",
   stage       |-> "fetching",
   status      |-> 0,
   body        |-> EmptyObject,
   value       |-> None,
   error       |-> None]

----------------------------------------------------------------------------
(* JaegerAPI: jaeger.js lines 188-240                                       *)

\* Bound: most identifiers in one fetchTraces call.
MaxIds == 2

\* DEFAULT_DEPENDENCY_LOOKBACK: one week in milliseconds.
DefaultDependencyLookback == 604800000

TraceIds == {"T1", "T2"}

ServiceNames == {"A", "my svc"}

\* encodeURIComponent on ServiceNames.
EncodeURIComponent(name) ==
  CASE name = "A" -> "A"
    [] name = "my svc" -> "my%20svc"

\* The search queries a caller passes to searchTraces.
SearchQueries ==
  { [operation   |-> Some("get"),
     minDuration |-> mn,
     maxDuration |-> mx,
     end         |-> 2000,
     limit       |-> 20,
     tags        |-> None,
     lookback    |-> lb,
     service     |-> sv] :
      mn \in {None, Some(<<"1", "s">>), Some(<<"0", "s">>)},
      mx \in {None, Some(<<"1", "0", "s">>)},
      lb \in {None, Some(<< >>), Some(<<"1", "s">>), Some(<<"u">>)},
      sv \in {None, Some("all"), Some("A")} }

\* Lines 205-218 with the lookback parsed in nano mode as well.
ZipkinQueryNanoLookback(query) ==
  LET base == [spanName        |-> query.operation,
               minDuration     |-> DurationToMs(query.minDuration, TRUE),
               maxDuration     |-> DurationToMs(query.maxDuration, TRUE),
               endTs           |-> Some(query.end \div 1000),
               limit           |-> Some(query.limit),
               annotationQuery |-> query.tags]
      withLookback ==
        IF ~FalsyStr(query.lookback)
        THEN SetKey(base, "lookback", DurationToMs(query.lookback, TRUE))
        ELSE base
  IN  IF query.service # Some("all")
      THEN SetKey(withLookback, "serviceName", query.service)
      ELSE withLookback

\* Lines 205-218: zipkinQuery.  `end` is a multiple of 1000 in SearchQueries,
\* where the division of line 209 is exact.
ZipkinQuery(query) ==
  LET base == [spanName        |-> query.operation,
               minDuration     |-> DurationToMs(query.minDuration, TRUE),
               maxDuration     |-> DurationToMs(query.maxDuration, TRUE),
               endTs           |-> Some(query.end \div 1000),
               limit           |-> Some(query.limit),
               annotationQuery |-> query.tags]
      withLookback ==
        IF ~FalsyStr(query.lookback)
        THEN SetKey(base, "lookback", DurationToMs(query.lookback, FALSE))
        ELSE base
  IN  IF query.service # Some("all")
      THEN SetKey(withLookback, "serviceName", query.service)
      ELSE withLookback

\* Line 219, `query = zipkinQuery`: the parameter is rebound, the object the
\* caller holds is not written.
CallerQueryAfter(query) == query

\* The trace the backend holds for an identifier.
BackendTrace(id) ==
  << ZipkinSpan(id, None, None, "A", Some("10.0.0.1")),
     ZipkinSpan(id, Some("p1"), Some("CONSUMER"), "B", Some("10.0.0.2")) >>

\* The bodies the backend may send with a status below 400, by URL.
SuccessBodies(url) ==
  IF \E id \in TraceIds : url = ApiRoot \o "trace/" \o id
  THEN { JsonArray(BackendTrace(CHOOSE id \in TraceIds :
                                  url = ApiRoot \o "trace/" \o id)) }
  ELSE IF url = ApiRoot \o "traces"
  THEN { JsonArray(<< >>), JsonArray(<<BackendTrace("T1"), BackendTrace("T2")>>) }
  ELSE IF url = ApiRoot \o "services"
  THEN { JsonArray(<<"A", "my svc">>) }
  ELSE IF url = ApiRoot \o "dependencies"
  THEN { JsonArray(<<[parent |-> "A", child |-> "B", callCount |-> 1]>>) }
  ELSE IF \E id \in TraceIds : url = ApiRoot \o "archive/" \o id
  THEN { EmptyObject, Envelope(JsonArray(<< >>)) }
  ELSE { JsonArray(<<"get">>) }

\* The body texts the backend may send with a status of 400 or more.
ErrorBodies ==
  { [text |-> << >>, parsed |-> None, pretty |-> << >>],
    [text |-> <<" ", "trace not found", " ">>, parsed |-> None, pretty |-> << >>],
    [text   |-> <<"{errors:[{code:404,msg:no trace},{code:7}]}">>,
     parsed |-> Some([errors |->
                 << [code |-> Some(404), msg |-> Some(<<"no trace">>),
                     json |-> <<"{code:404,msg:no trace}">>],
                    [code |-> Some(7), msg |-> None, json |-> <<"{code:7}">>] >>]),
     pretty |-> <<"{ errors: [ { code: 404, msg: no trace }, { code: 7 } ] }">>] }

Statuses == {200, 404, 500}

NoCall == [method |-> "none", arg |-> None]

NoPromise == [state |-> "none", value |-> None, slots |-> << >>]

PendingPromise(n) ==
  [state |-> "pending", value |-> None, slots |-> [i \in 1..n |-> None]]

\* A promise settles once: later resolutions and rejections are ignored.
Resolve(p, v) ==
  IF p.state = "pending" THEN [p EXCEPT !.state = "resolved", !.value = Some(v)]
  ELSE p

Reject(p, e) ==
  IF p.state = "pending" THEN [p EXCEPT !.state = "rejected", !.value = Some(e)]
  ELSE p

ApiIdle ==
  /\ call = NoCall
  /\ callerQuery = None
  /\ requests = << >>
  /\ promise = NoPromise
  /\ transformed = << >>

\* Promise.all that stores a result in the first free slot, i.e. in the
\* order the fetches complete.
JoinFulfilledArrivalOrder(p, i, v) ==
  LET free  == { j \in 1..Len(p.slots) : p.slots[j] = None }
      k     == CHOOSE j \in free : \A l \in free : j <= l
      slots == [p.slots EXCEPT ![k] = Some(v)]
  IN  IF \A j \in 1..Len(slots) : IsSome(slots[j])
      THEN Resolve([p EXCEPT !.slots = slots],
                   Envelope(JsonArray([j \in 1..Len(slots) |-> slots[j][1]])))
      ELSE [p EXCEPT !.slots = slots]

\* Line 198, Promise.all(traces).then(result => ({ data: result })), when
\* the i-th promise of `traces` fulfils with v: the value is kept at index i
\* and the join resolves once every index has one.
JoinFulfilled(p, i, v) ==
  LET slots == [p.slots EXCEPT ![i] = Some(v)]
  IN  IF \A j \in 1..Len(slots) : IsSome(slots[j])
      THEN Resolve([p EXCEPT !.slots = slots],
                   Envelope(JsonArray([j \in 1..Len(slots) |-> slots[j][1]])))
      ELSE [p EXCEPT !.slots = slots]

\* A join that treats a failed fetch as an undefined result.
JoinRejectedAsUndefined(p, i, e) == JoinFulfilled(p, i, None)

\* Line 198 when the i-th promise of `traces` rejects with e: Promise.all
\* rejects with the first reason, and the then of line 198 has no
\* rejection handler.
JoinRejected(p, i, e) == Reject(p, e)

\* An adapter that catches the rejection and answers with an empty result.
PassRejectionCaught(p, e) == Resolve(p, Envelope(JsonArray(<< >>)))

\* Lines 192, 201, 221, 227, 233, 238: the promise of getJSON rejects and
\* the adapter's then has no rejection handler.
PassRejection(p, e) == Reject(p, e)

\* What the adapter's then-callback makes of the parsed body d of fetch i.
OnFulfilled(p, i, d) ==
  CASE call.method = "fetchTrace" ->
         Resolve(p, Envelope(JsonArray(<<TransformTraceData(d.items)>>)))
    [] call.method = "fetchTraces" ->
         JoinFulfilled(p, i, TransformTraceData(d.items))
    [] call.method = "searchTraces" ->
         Resolve(p, Envelope(JsonArray(TransformTracesData(d.items))))
    [] call.method \in {"fetchServices", "fetchServiceOperations"} ->
         Resolve(p, Envelope(d))
    [] call.method \in {"archiveTrace", "fetchDependencies"} ->
         Resolve(p, d)

\* The methods whose then-callback runs a trace transformer.
Transforming == {"fetchTrace", "fetchTraces", "searchTraces"}

OnRejected(p, i, e) ==
  IF call.method = "fetchTraces" THEN JoinRejected(p, i, e)
  ELSE PassRejection(p, e)

Idle == call = NoCall

UnchangedPure == UNCHANGED <<span, logs, token, nanos, msResult, trace, traceData>>

\* fetchTrace(id), lines 190-195.
FetchTrace(id) ==
  /\ Idle
  /\ call' = [method |-> "fetchTrace", arg |-> id]
  /\ requests' = <<NewRequest(ApiRoot \o "trace/" \o id, None, None)>>
  /\ promise' = PendingPromise(0)
  /\ UNCHANGED <<callerQuery, transformed>>
  /\ UnchangedPure

\* fetchTraces(ids), lines 196-199.  Promise.all of no promises resolves
\* with an empty array.
FetchTraces(ids) ==
  /\ Idle
  /\ call' = [method |-> "fetchTraces", arg |-> ids]
  /\ requests' = [i \in 1..Len(ids) |->
                    NewRequest(ApiRoot \o "trace/" \o ids[i], None, None)]
  /\ promise' = IF ids = << >>
                THEN Resolve(PendingPromise(0), Envelope(JsonArray(<< >>)))
                ELSE PendingPromise(Len(ids))
  /\ UNCHANGED <<callerQuery, transformed>>
  /\ UnchangedPure

\* archiveTrace(id), lines 200-202.
ArchiveTrace(id) ==
  /\ Idle
  /\ call' = [method |-> "archiveTrace", arg |-> id]
  /\ requests' = <<NewRequest(ApiRoot \o "archive/" \o id, None, Some("POST"))>>
  /\ promise' = PendingPromise(0)
  /\ UNCHANGED <<callerQuery, transformed>>
  /\ UnchangedPure

\* searchTraces(query), lines 203-224.
SearchTraces(query) ==
  /\ Idle
  /\ call' = [method |-> "searchTraces", arg |-> query]
  /\ callerQuery' = Some(CallerQueryAfter(query))
  /\ requests' = <<NewRequest(ApiRoot \o "traces", Some(ZipkinQuery(query)), None)>>
  /\ promise' = PendingPromise(0)
  /\ UNCHANGED transformed
  /\ UnchangedPure

\* fetchServices(), lines 225-230.
FetchServices ==
  /\ Idle
  /\ call' = [method |-> "fetchServices", arg |-> None]
  /\ requests' = <<NewRequest(ApiRoot \o "services", None, None)>>
  /\ promise' = PendingPromise(0)
  /\ UNCHANGED <<callerQuery, transformed>>
  /\ UnchangedPure

\* fetchServiceOperations(serviceName), lines 231-236.
FetchServiceOperations(serviceName) ==
  /\ Idle
  /\ call' = [method |-> "fetchServiceOperations", arg |-> serviceName]
  /\ requests' = <<NewRequest(ApiRoot \o "spans?serviceName="
                                \o EncodeURIComponent(serviceName), None, None)>>
  /\ promise' = PendingPromise(0)
  /\ UNCHANGED <<callerQuery, transformed>>
  /\ UnchangedPure

\* fetchDependencies(endTs, lookback), lines 237-239: an argument left out
\* takes its default, the current time `now` or DEFAULT_DEPENDENCY_LOOKBACK.
FetchDependencies(endTs, lookback, now) ==
  /\ Idle
  /\ call' = [method |-> "fetchDependencies", arg |-> <<endTs, lookback>>]
  /\ requests' =
       <<NewRequest(ApiRoot \o "dependencies",
                    Some([endTs    |-> IF endTs = None THEN Some(now) ELSE endTs,
                          lookback |-> IF lookback = None
                                       THEN Some(DefaultDependencyLookback)
                                       ELSE lookback]),
                    None)>>
  /\ promise' = PendingPromise(0)
  /\ UNCHANGED <<callerQuery, transformed>>
  /\ UnchangedPure

\* Line 41: the fetch of request i resolves with a response; getJSON starts
\* reading the body, as JSON below status 400 and as text from 400 on.
ResponseArrives(i, status, body) ==
  /\ i \in 1..Len(requests)
  /\ requests[i].stage = "fetching"
  /\ body \in IF status < 400 THEN SuccessBodies(requests[i].url) ELSE ErrorBodies
  /\ requests' = [requests EXCEPT ![i].stage  = IF status < 400 THEN "json" ELSE "text",
                                  ![i].status = status,
                                  ![i].body   = body]
  /\ UNCHANGED <<call, callerQuery, promise, transformed>>
  /\ UnchangedPure

\* Line 43: response.json() of request i fulfils; the promise of getJSON
\* fulfils with the parsed body and the adapter's then-callback runs.
JsonParsed(i) ==
  /\ i \in 1..Len(requests)
  /\ requests[i].stage = "json"
  /\ requests' = [requests EXCEPT ![i].stage = "fulfilled",
                                  ![i].value = Some(requests[i].body)]
  /\ promise' = OnFulfilled(promise, i, requests[i].body)
  /\ transformed' = IF call.method \in Transforming THEN Append(transformed, i)
                    ELSE transformed
  /\ UNCHANGED <<call, callerQuery>>
  /\ UnchangedPure

\* Lines 45-71: response.text() of request i fulfils; getJSON throws the
\* error, its promise rejects and the rejection reaches the adapter.
ErrorBodyRead(i) ==
  /\ i \in 1..Len(requests)
  /\ requests[i].stage = "text"
  /\ LET error == HttpError(requests[i].url, requests[i].query,
                            requests[i].status, requests[i].body)
     IN  /\ requests' = [requests EXCEPT ![i].stage = "rejected",
                                         ![i].error = Some(error)]
         /\ promise' = OnRejected(promise, i, error)
  /\ UNCHANGED <<call, callerQuery, transformed>>
  /\ UnchangedPure

----------------------------------------------------------------------------
(* Specifications                                                           *)

InitLogs == span \in LogSpans /\ logs = None /\ DurationIdle /\ TraceIdle /\ ApiIdle

NextLogs == CallTransformLogs

\* transformLogs applied to every span of LogSpans.
SpecLogs == InitLogs /\ [][NextLogs]_vars

InitDuration ==
  /\ token \in Tokens /\ nanos \in BOOLEAN /\ msResult = None
  /\ LogsIdle /\ TraceIdle /\ ApiIdle

NextDuration == CallDurationToMs

\* durationToMs applied to every token of Tokens, in both modes.
SpecDuration == InitDuration /\ [][NextDuration]_vars

InitTrace ==
  /\ trace \in Traces /\ traceData = None
  /\ LogsIdle /\ DurationIdle /\ ApiIdle

NextTrace == CallTransformTraceData

\* transformTraceData applied to every trace of Traces.
SpecTrace == InitTrace /\ [][NextTrace]_vars

Init == LogsIdle /\ DurationIdle /\ TraceIdle /\ ApiIdle

Next ==
  \/ \E id \in TraceIds : FetchTrace(id)
  \/ \E ids \in UNION { [1..n -> TraceIds] : n \in 0..MaxIds } : FetchTraces(ids)
  \/ \E id \in TraceIds : ArchiveTrace(id)
  \/ \E query \in SearchQueries : SearchTraces(query)
  \/ FetchServices
  \/ \E name \in ServiceNames : FetchServiceOperations(name)
  \/ \E endTs \in {None, Some(1000)}, lookback \in {None, Some(3600000)},
        now \in {5000} : FetchDependencies(endTs, lookback, now)
  \/ \E i \in 1..Len(requests), status \in Statuses :
        \E body \in ErrorBodies \cup SuccessBodies(requests[i].url) :
          ResponseArrives(i, status, body)
  \/ \E i \in 1..Len(requests) : JsonParsed(i)
  \/ \E i \in 1..Len(requests) : ErrorBodyRead(i)

\* One call of a JaegerAPI method and the network events that follow it.
Spec == Init /\ [][Next]_vars

----------------------------------------------------------------------------
(* Properties of transformLogs (checked under SpecLogs)                     *)

\* The annotation value of the span under SpecLogs, once transformLogs has
\* returned for a span with one annotation.
LogsReturned ==
  /\ logs # None
  /\ span.annotations # None
  /\ span.annotations[1] # << >>

\* C1: every field transformLogs produces has as key the non-whitespace run
\* captured by the corresponding `key=` match, and as value the whole text
\* after the match up to the next match or the end of the string, further
\* "=" characters included.
C1_KeyAndWholeRemainder ==
  LogsReturned =>
    LET value  == span.annotations[1][1].value
        ms     == AllMatches(value, 0)
        fields == logs[1][1].fields
    IN  \A k \in 1..Len(ms) :
          /\ k <= Len(fields)
          /\ fields[k].key = MatchKey(value, ms[k])
          /\ fields[k].value =
               Some(SubSeq(value, ms[k].eq + 1,
                           IF k < Len(ms) THEN ms[k + 1].start - 1 ELSE Len(value)))

\* C2: transformLogs produces exactly one field per match of the pattern
\* (none for a value without a match), the k-th field stemming from the k-th
\* match: where the captured run holds no "$", the field's key starts it.
C2_OneFieldPerMatchInOrder ==
  LogsReturned =>
    LET value  == span.annotations[1][1].value
        ms     == AllMatches(value, 0)
        fields == logs[1][1].fields
    IN  /\ Len(fields) = Len(ms)
        /\ \A k \in 1..Len(ms) :
              LET key == MatchKey(value, ms[k])
              IN  (\A i \in 1..Len(key) : key[i] # "$") =>
                    /\ Len(fields[k].key) <= Len(key)
                    /\ fields[k].key = SubSeq(key, 1, Len(fields[k].key))

----------------------------------------------------------------------------
(* Properties of durationToMs (checked under SpecDuration)                  *)

\* The first <digits><letters> occurrence of a string, found by its
\* defining property: << >> or <<first digit, last digit, last letter>>.
FirstDurationOccurrence(s) ==
  LET occ == { pe \in (1..Len(s)) \X (1..Len(s)) :
                 /\ pe[1] <= pe[2] /\ pe[2] < Len(s)
                 /\ \A i \in pe[1]..pe[2] : s[i] \in Digits
                 /\ s[pe[2] + 1] \in Letters }
  IN  IF occ = {} THEN << >>
      ELSE LET p == CHOOSE p \in { pe[1] : pe \in occ } :
                      \A q \in { pe[1] : pe \in occ } : p <= q
               e == CHOOSE e \in p..Len(s) : <<p, e>> \in occ
               u == CHOOSE u \in (e + 1)..Len(s) :
                      /\ \A i \in (e + 1)..u : s[i] \in Letters
                      /\ (u = Len(s) \/ s[u + 1] \notin Letters)
           IN  <<p, e, u>>

----------------------------------------------------------------------------
(* Properties of transformTraceData (checked under SpecTrace)               *)

\* C4: the references of a transformed span hold at most one element: none
\* when parentId is absent, otherwise one reference with refType
\* FOLLOWS_FROM for kind CONSUMER and CHILD_OF for any other or missing
\* kind, traceID the span's own traceId and spanID the span's parentId.
C4_AtMostOneReference ==
  traceData # None =>
    \A i \in 1..Len(trace) :
      LET s    == trace[i]
          refs == traceData[1].spans[i].references
      IN  /\ Len(refs) <= 1
          /\ s.parentId = None => refs = << >>
          /\ s.parentId # None =>
                /\ Len(refs) = 1
                /\ refs[1].refType = IF s.kind = Some("CONSUMER")
                                     THEN "FOLLOWS_FROM" ELSE "CHILD_OF"
                /\ refs[1].traceID = s.traceId
                /\ refs[1].spanID = s.parentId

\* A transformed trace with a root span and a CONSUMER child of another
\* trace identifier.
C4_Witness ==
  /\ traceData # None
  /\ Len(trace) = 2
  /\ trace[1].parentId = None
  /\ trace[2].parentId # None /\ trace[2].kind = Some("CONSUMER")
  /\ trace[2].traceId # trace[1].traceId
  /\ Len(traceData[1].spans[2].references) = 1

\* C5: the processes map has as key set exactly the service names of the
\* input spans, every output span's processID is one of its keys, and the
\* ip tag of each record is the ipv4 of the last span with that service name.
C5_ProcessesLastWriteWins ==
  traceData # None =>
    LET procs == traceData[1].processes
        names == { trace[i].localEndpoint.serviceName : i \in 1..Len(trace) }
    IN  /\ DOMAIN procs = names
        /\ \A i \in 1..Len(trace) : traceData[1].spans[i].processID \in DOMAIN procs
        /\ \A n \in names :
              LET is   == { i \in 1..Len(trace) : trace[i].localEndpoint.serviceName = n }
                  last == CHOOSE i \in is : \A j \in is : j <= i
              IN  /\ procs[n].tags[2].key = "ip"
                  /\ procs[n].tags[2].value = trace[last].localEndpoint.ipv4

\* Two spans of one service with different addresses, transformed.
C5_Witness ==
  /\ traceData # None
  /\ Len(trace) = 2
  /\ trace[1].localEndpoint.serviceName = trace[2].localEndpoint.serviceName
  /\ trace[1].localEndpoint.ipv4 # trace[2].localEndpoint.ipv4
  /\ Cardinality(DOMAIN traceData[1].processes) = 1

----------------------------------------------------------------------------
(* Properties of JaegerAPI (checked under Spec)                             *)

\* C6: the query searchTraces sends has a serviceName key exactly when
\* query.service is not "all" (value query.service), a lookback key exactly
\* when query.lookback is truthy (value its non-nano parse), minDuration and
\* maxDuration as the nano-scaled parses, and the caller's query object is
\* as it was passed in.
C6_SearchQueryTranslation ==
  call.method = "searchTraces" =>
    LET q    == call.arg
        sent == requests[1].query[1]
    IN  /\ "serviceName" \in DOMAIN sent <=> q.service # Some("all")
        /\ "serviceName" \in DOMAIN sent => sent["serviceName"] = q.service
        /\ "lookback" \in DOMAIN sent <=> ~FalsyStr(q.lookback)
        /\ "lookback" \in DOMAIN sent =>
              sent["lookback"] = DurationToMs(q.lookback, FALSE)
        /\ sent["minDuration"] = DurationToMs(q.minDuration, TRUE)
        /\ sent["maxDuration"] = DurationToMs(q.maxDuration, TRUE)
        /\ callerQuery = Some(q)

\* A search for one service with a lookback and a minimum duration.
C6_Witness ==
  /\ call.method = "searchTraces"
  /\ call.arg.service = Some("A")
  /\ call.arg.lookback = Some(<<"1", "s">>)
  /\ requests[1].query[1]["lookback"] = Some(1000)
  /\ requests[1].query[1]["minDuration"] = Some(1000000)

\* { data: <value> }.
IsEnvelope(v) == v.kind = "object" /\ "data" \in DOMAIN v

\* C7: every JaegerAPI method whose fetch succeeds resolves its promise
\* with an envelope { data: <value> }.
C7_ResolvesWithEnvelope ==
  promise.state = "resolved" => IsEnvelope(promise.value[1])

\* C8: fetchTraces issues one fetch per identifier of ids.traceID; its
\* promise is resolved only when every one of them has succeeded, and is
\* rejected, never resolved, as soon as one of them has failed.
C8_JoinAllOrReject ==
  call.method = "fetchTraces" =>
    /\ Len(requests) = Len(call.arg)
    /\ \A i \in 1..Len(requests) :
          requests[i].url = ApiRoot \o "trace/" \o call.arg[i]
    /\ promise.state = "resolved" =>
          \A i \in 1..Len(requests) : requests[i].stage = "fulfilled"
    /\ (\E i \in 1..Len(requests) : requests[i].stage = "rejected") =>
          promise.state = "rejected"

\* fetchTraces of two identifiers: the second fetch succeeded, then the
\* first one failed.
C8_Witness ==
  /\ call.method = "fetchTraces"
  /\ Len(requests) = 2
  /\ requests[1].stage = "rejected"
  /\ requests[2].stage = "fulfilled"
  /\ transformed = <<2>>
  /\ promise.state = "rejected"

\* The error of request r carries the response's status, status text, body,
\* URL and query.
IsHttpErrorOf(e, r) ==
  /\ e.httpStatus = r.status
  /\ e.httpStatusText = StatusText(r.status)
  /\ e.httpBody \in {r.body.text, r.body.pretty}
  /\ e.httpUrl = r.url
  /\ e.httpQuery = QueryStringify(r.query)

\* C9: for every method, a response of status >= 400 makes the returned
\* promise reject with the structured error of getJSON, no transformer runs
\* on that response and the rejection is never turned into a resolved
\* value; below 400 the fetch resolves with the parsed body, and a
\* transformer runs only on a fetch that has resolved.
C9_HttpErrorsPropagate ==
  \A i \in 1..Len(requests) :
    LET r == requests[i]
    IN  /\ r.status >= 400 =>
              /\ r.stage \in {"text", "rejected"}
              /\ \A k \in 1..Len(transformed) : transformed[k] # i
        /\ r.stage = "rejected" =>
              /\ IsHttpErrorOf(r.error[1], r)
              /\ promise.state = "rejected"
              /\ \E j \in 1..Len(requests) :
                    /\ requests[j].stage = "rejected"
                    /\ promise.value = requests[j].error
        /\ r.stage = "fulfilled" => r.status < 400 /\ r.value = Some(r.body)
        /\ \A k \in 1..Len(transformed) :
              transformed[k] = i => r.stage = "fulfilled"

\* A search answered with status 500: the promise of searchTraces is
\* rejected with the error that carries that status.
C9_Witness ==
  /\ call.method = "searchTraces"
  /\ requests[1].stage = "rejected"
  /\ requests[1].status = 500
  /\ promise.state = "rejected"
  /\ promise.value[1].httpStatus = 500
  /\ transformed = << >>

\* C10: when every fetch of fetchTraces has succeeded, the data it resolves
\* with is as long as ids.traceID and its i-th element is the transformed
\* trace of the i-th identifier, whatever the order of completion.
C10_ResultsInIdOrder ==
  (/\ call.method = "fetchTraces"
   /\ \A i \in 1..Len(requests) : requests[i].stage = "fulfilled") =>
    /\ promise.state = "resolved"
    /\ IsEnvelope(promise.value[1])
    /\ LET items == promise.value[1].data.items
       IN  /\ Len(items) = Len(call.arg)
           /\ \A i \in 1..Len(items) :
                 items[i] = TransformTraceData(BackendTrace(call.arg[i]))

\* fetchTraces of two different identifiers whose second fetch completed
\* first, resolved.
C10_Witness ==
  /\ call.method = "fetchTraces"
  /\ Len(call.arg) = 2
  /\ call.arg[1] # call.arg[2]
  /\ transformed = <<2, 1>>
  /\ promise.state = "resolved"

====
